---- MODULE Spec2Model ----
(***************************************************************************)
(* Model of the statistics aggregation engine of github-stats:             *)
(* isBot, calculateTimeMetrics and calculateStats, and of main, which      *)
(* fetches the inputs and calls calculateStats.                            *)
(*                                                                         *)
(* Usernames are strings; charsOf gives their characters, so that isBot's   *)
(* toLowerCase / includes can be computed.  Timestamps (Date.getTime())    *)
(* are integers.  A nullable number (number | null) is a sequence of       *)
(* length at most one: << >> is null, <<v>> is the number v.  A JS Map is  *)
(* a record [keys, val]: keys is the insertion order, val the mapping.     *)
(* A fraction that is no integer (average, median, participation rate) is  *)
(* a record [num, den] standing for num / den.                             *)
(***************************************************************************)
EXTENDS Integers, Sequences, FiniteSets, TLC

\* ------------------------------------------------------------------ bounds
\* timestamps range over 0..MaxTime
MaxTime == 2
\* total number of reviews, review requests and comments of one input (Spec)
MaxEvents == 2
\* the same when all of them concern one person on one PR (SpecPair)
MaxPairEvents == 4
\* the same for the inputs of SpecSort
MaxSortEvents == 1
\* the length of the duration lists of SpecMetrics
MaxDurations == 4
\* total number of reviews, review requests and comments of SpecScenario
MaxScenarioEvents == 3

\* --------------------------------------------------------------- usernames
\* the identities the inputs are drawn from
Persons == {"alice", "bob", "Renovate[bot]"}
\* further usernames isBot is evaluated on
Usernames == Persons \cup {"dependabot", "my-COPILOT", "robot", "Bob"}

\* the characters of every username and pattern of the model
charsOf ==
    [alice |-> <<"a", "l", "i", "c", "e">>,
     bob |-> <<"b", "o", "b">>,
     Bob |-> <<"B", "o", "b">>,
     robot |-> <<"r", "o", "b", "o", "t">>,
     renovate |-> <<"r", "e", "n", "o", "v", "a", "t", "e">>,
     copilot |-> <<"c", "o", "p", "i", "l", "o", "t">>,
     dependabot |-> <<"d", "e", "p", "e", "n", "d", "a", "b", "o", "t">>]
    @@ ("Renovate[bot]" :>
            <<"R", "e", "n", "o", "v", "a", "t", "e", "[", "b", "o", "t", "]">>)
    @@ ("my-COPILOT" :> <<"m", "y", "-", "C", "O", "P", "I", "L", "O", "T">>)

\* ------------------------------------------------------------------- isBot
UpperCase == <<"A", "B", "C", "D", "E", "F", "G", "H", "I", "J", "K", "L", "M",
               "N", "O", "P", "Q", "R", "S", "T", "U", "V", "W", "X", "Y", "Z">>
LowerCase == <<"a", "b", "c", "d", "e", "f", "g", "h", "i", "j", "k", "l", "m",
               "n", "o", "p", "q", "r", "s", "t", "u", "v", "w", "x", "y", "z">>

toLowerCaseChar(c) ==
    IF \E i \in 1..Len(UpperCase) : UpperCase[i] = c
    THEN LowerCase[CHOOSE i \in 1..Len(UpperCase) : UpperCase[i] = c]
    ELSE c

\* String.prototype.toLowerCase, on the characters of a string
toLowerCase(s) == [i \in 1..Len(s) |-> toLowerCaseChar(s[i])]

\* String.prototype.includes, on the characters of two strings
includes(s, pattern) ==
    \E i \in 0..(Len(s) - Len(pattern)) : SubSeq(s, i + 1, i + Len(pattern)) = pattern

botPatterns == <<"renovate", "copilot", "dependabot">>

\* isBot(username), for every username of the model
isBot ==
    [username \in Usernames |->
        LET lowercaseUsername == toLowerCase(charsOf[username])
        IN  \E k \in 1..Len(botPatterns) :
                includes(lowercaseUsername, charsOf[botPatterns[k]])]

\* ----------------------------------------------------------------- helpers
Null == << >>
Some(v) == <<v>>

\* x || null for a nullable number: null and 0 are both falsy
OrNull(x) == IF x = Null \/ x = Some(0) THEN Null ELSE x

\* Array.prototype.find: the first element satisfying Test, as a nullable
find(seq, Test(_)) ==
    IF \E i \in 1..Len(seq) : Test(seq[i])
    THEN Some(seq[CHOOSE i \in 1..Len(seq) :
                    Test(seq[i]) /\ \A j \in 1..(i - 1) : ~Test(seq[j])])
    ELSE Null

\* Array.prototype.sort with comparator (a, b) => key(a) - key(b): a stable
\* ascending sort, here by insertion.  keyed is the array as <<key, element>>
\* pairs.
RECURSIVE insertSorted(_, _)
insertSorted(sorted, x) ==
    IF sorted = << >> THEN <<x>>
    ELSE IF sorted[Len(sorted)][1] <= x[1] THEN Append(sorted, x)
    ELSE Append(insertSorted(SubSeq(sorted, 1, Len(sorted) - 1), x),
                sorted[Len(sorted)])

RECURSIVE sortKeyed(_)
sortKeyed(keyed) ==
    IF keyed = << >> THEN << >>
    ELSE insertSorted(sortKeyed(SubSeq(keyed, 1, Len(keyed) - 1)), keyed[Len(keyed)])

sortBy(seq, Key(_)) ==
    LET sorted == sortKeyed([i \in 1..Len(seq) |-> <<Key(seq[i]), seq[i]>>])
    IN  [i \in 1..Len(seq) |-> sorted[i][2]]

RECURSIVE sum(_)
sum(seq) == IF seq = << >> THEN 0 ELSE seq[1] + sum(Tail(seq))

\* a JS Map: insertion-ordered keys and the mapping
EmptyMap == [keys |-> << >>, val |-> << >>]
mapHas(m, k) == k \in DOMAIN m.val
mapGet(m, k) == m.val[k]
mapSet(m, k, v) ==
    IF mapHas(m, k)
    THEN [m EXCEPT !.val = [x \in DOMAIN m.val |-> IF x = k THEN v ELSE m.val[x]]]
    ELSE [keys |-> Append(m.keys, k), val |-> (k :> v) @@ m.val]

\* ---------------------------------------------------- calculateTimeMetrics
ident(x) == x

\* calculateTimeMetrics taking the element after the middle as the median
\* of any list
calculateTimeMetricsOdd(durationList) ==
    IF Len(durationList) = 0 THEN Null
    ELSE LET sorted == sortBy(durationList, ident)
             n == Len(sorted)
         IN  Some([average |-> [num |-> sum(durationList), den |-> Len(durationList)],
                   min |-> sorted[1],
                   max |-> sorted[n],
                   median |-> [num |-> sorted[n \div 2 + 1], den |-> 1]])

calculateTimeMetrics(durationList) ==
    IF Len(durationList) = 0 THEN Null
    ELSE LET sorted == sortBy(durationList, ident)
             n == Len(sorted)
         IN  Some([average |-> [num |-> sum(durationList), den |-> Len(durationList)],
                   min |-> sorted[1],
                   max |-> sorted[n],
                   median |-> IF n % 2 = 0
                              THEN [num |-> sorted[n \div 2] + sorted[n \div 2 + 1], den |-> 2]
                              ELSE [num |-> sorted[n \div 2 + 1], den |-> 1]])

\* the array of the caller once calculateTimeMetrics has sorted in place,
\* without the copy
durationsSortedInPlace(durationList) == sortBy(durationList, ident)

\* the array of the caller when calculateTimeMetrics returns: sort works on
\* the copy [...durations], and length, reduce and the index reads do not
\* write
durationsAfter(durationList) == durationList

\* ------------------------------------------------------------------ inputs
\* the arguments of calculateStats: the PR list and the three Maps keyed by
\* PR number
VARIABLES prs, reviews, reviewRequests, comments
\* calculateStats's personMap as it stands when the conversion loop starts,
\* its return value, and the position of the program
VARIABLES personMap, stats, pc
\* what Date.now() returns during the call, and the return value of a second
\* call on the same input
VARIABLES clock, again
\* the argument and the return value of a call of calculateTimeMetrics
VARIABLES durations, metrics

\* what main holds besides the PR list and the three Maps: the PR list as
\* fetched, the loop index, the fetches not yet settled, the values the
\* settled ones resolved to, and the aggregation and export steps done
VARIABLES run

vars == <<prs, reviews, reviewRequests, comments, personMap, stats, pc, clock, again,
          durations, metrics, run>>

ReviewStates == {"APPROVED", "COMMENTED", "CHANGES_REQUESTED"}

\* map.get(k) || []
getOrEmpty(m, k) == IF mapHas(m, k) THEN mapGet(m, k) ELSE << >>

\* ---------------------------------------------------------- calculateStats
newPersonData ==
    [prsOpened |-> 0,
     reviewsApproved |-> 0,
     reviewsCommented |-> 0,
     reviewsChangesRequested |-> 0,
     prsReviewedSet |-> {},
     ownPRNumbers |-> {},
     timeToFirstComment |-> << >>,
     timeToFirstReview |-> << >>,
     timeToApproval |-> << >>,
     prDetailsMap |-> EmptyMap]

\* if (!personMap.has(k)) personMap.set(k, {...})
ensurePerson(pm, k) == IF mapHas(pm, k) THEN pm ELSE mapSet(pm, k, newPersonData)

\* countPRsOpened setting the count of an author to 1 instead of adding 1
RECURSIVE countPRsOpenedOnce(_, _, _)
countPRsOpenedOnce(pm, prList, i) ==
    IF i > Len(prList) THEN pm
    ELSE LET pr == prList[i]
         IN  IF isBot[pr.author] THEN countPRsOpenedOnce(pm, prList, i + 1)
             ELSE LET pm1 == ensurePerson(pm, pr.author)
                      authorData == mapGet(pm1, pr.author)
                      updated == [authorData EXCEPT
                                    !.prsOpened = 1,
                                    !.ownPRNumbers = @ \cup {pr.number}]
                  IN  countPRsOpenedOnce(mapSet(pm1, pr.author, updated), prList, i + 1)

\* Count PRs opened by each person (excluding bots): the loop over prs,
\* from index i on
RECURSIVE countPRsOpened(_, _, _)
countPRsOpened(pm, prList, i) ==
    IF i > Len(prList) THEN pm
    ELSE LET pr == prList[i]
         IN  IF isBot[pr.author] THEN countPRsOpened(pm, prList, i + 1)
             ELSE LET pm1 == ensurePerson(pm, pr.author)
                      authorData == mapGet(pm1, pr.author)
                      updated == [authorData EXCEPT
                                    !.prsOpened = @ + 1,
                                    !.ownPRNumbers = @ \cup {pr.number}]
                  IN  countPRsOpened(mapSet(pm1, pr.author, updated), prList, i + 1)

\* Group an array by a key, as a Map from key to the elements in array order
RECURSIVE groupBy(_, _, _)
groupBy(m, keyed, i) ==
    IF i > Len(keyed) THEN m
    ELSE LET k == keyed[i][1]
             m1 == IF mapHas(m, k) THEN m ELSE mapSet(m, k, << >>)
         IN  groupBy(mapSet(m1, k, Append(mapGet(m1, k), keyed[i][2])), keyed, i + 1)

submittedAtOf(review) == review.submittedAt
createdAtOf(comment) == comment.createdAt
timestampOf(interaction) == interaction.timestamp

\* isFormal taking a request for changes only
isChangesRequested(r) == r.state = "CHANGES_REQUESTED"

\* r => r.state === "APPROVED" || r.state === "CHANGES_REQUESTED"
isFormal(r) == r.state = "APPROVED" \/ r.state = "CHANGES_REQUESTED"

\* sortReviews without the sort: the reviews in the order of the array
sortReviewsUnsorted(personReviews) == personReviews

\* const sortedReviews = [...personReviews].sort(by submittedAt)
sortReviews(personReviews) == sortBy(personReviews, submittedAtOf)

\* latestReviewOf taking the first review instead of the last
latestReviewFirst(sortedReviews) == sortedReviews[1]

\* const latestReview = sortedReviews[sortedReviews.length - 1]
latestReviewOf(sortedReviews) == sortedReviews[Len(sortedReviews)]

\* countReviewType counting approvals only
countApprovals(personData, latestReview) ==
    IF latestReview.state = "APPROVED"
    THEN [personData EXCEPT !.reviewsApproved = @ + 1]
    ELSE personData

\* Count review types (only count the latest review state for each PR)
countReviewType(personData, latestReview) ==
    IF latestReview.state = "APPROVED"
    THEN [personData EXCEPT !.reviewsApproved = @ + 1]
    ELSE IF latestReview.state = "COMMENTED"
    THEN [personData EXCEPT !.reviewsCommented = @ + 1]
    ELSE IF latestReview.state = "CHANGES_REQUESTED"
    THEN [personData EXCEPT !.reviewsChangesRequested = @ + 1]
    ELSE personData

\* findReviewRequest taking the first request of the PR, whoever it names
findFirstRequest(prReviewRequests, reviewer) ==
    IF prReviewRequests = << >> THEN Null ELSE Some(prReviewRequests[1])

\* prReviewRequests.find(req => req.reviewer === reviewer)
findReviewRequest(prReviewRequests, reviewer) ==
    LET isRequestFor(req) == req.reviewer = reviewer
    IN  find(prReviewRequests, isRequestFor)

\* sortedInteractions without the reviews: the comments only
commentInteractions(sortedReviews, personComments) ==
    sortBy([i \in 1..Len(personComments) |->
                [type |-> "comment", timestamp |-> personComments[i].createdAt]],
           timestampOf)

\* the person's reviews and comments as interactions, sorted by time
sortedInteractions(sortedReviews, personComments) ==
    sortBy([i \in 1..Len(sortedReviews) |->
                [type |-> "review", timestamp |-> sortedReviews[i].submittedAt]]
           \o [i \in 1..Len(personComments) |->
                [type |-> "comment", timestamp |-> personComments[i].createdAt]],
           timestampOf)

\* findFormalReview taking the first review of any state
findFirstReview(sortedReviews) ==
    IF sortedReviews = << >> THEN Null ELSE Some(sortedReviews[1])

\* sortedReviews.find(r => r.state === "APPROVED" || r.state === "CHANGES_REQUESTED")
findFormalReview(sortedReviews) == find(sortedReviews, isFormal)

\* isRecorded without the sign test
isRecordedAlways(delta) == TRUE

\* findApprovalReview taking approvals only
findApprovedReview(sortedReviews) ==
    LET isApproved(r) == r.state = "APPROVED"
    IN  find(sortedReviews, isApproved)

\* Time to approval/changes requested (same as first formal review):
\* sortedReviews.find(r => r.state === "APPROVED" || r.state === "CHANGES_REQUESTED")
findApprovalReview(sortedReviews) == find(sortedReviews, isFormal)

\* if (delta >= 0): only such a delta is pushed and stored
isRecorded(delta) == delta >= 0

\* the body of the loop over reviewsByPerson.entries(): one reviewer's
\* reviews on one PR
processReviewer(pm, prNumber, reviewer, personReviews, prReviewRequests, prComments) ==
    LET pm1 == ensurePerson(pm, reviewer)
        personData == mapGet(pm1, reviewer)
        sortedReviews == sortReviews(personReviews)
        latestReview == latestReviewOf(sortedReviews)
        reviewRequest == findReviewRequest(prReviewRequests, reviewer)
        requestTime == reviewRequest[1].requestedAt
        isOwnComment(c) == c.commenter = reviewer /\ ~isBot[c.commenter]
        personComments == SelectSeq(prComments, isOwnComment)
        allInteractions == sortedInteractions(sortedReviews, personComments)
        timeToFirstComment == allInteractions[1].timestamp - requestTime
        commentRecorded ==
            reviewRequest # Null /\ Len(allInteractions) > 0 /\ isRecorded(timeToFirstComment)
        firstFormalReview == findFormalReview(sortedReviews)
        timeToFirst == firstFormalReview[1].submittedAt - requestTime
        reviewRecorded ==
            reviewRequest # Null /\ firstFormalReview # Null /\ isRecorded(timeToFirst)
        approvalReview == findApprovalReview(sortedReviews)
        timeToApprovalValue == approvalReview[1].submittedAt - requestTime
        approvalRecorded ==
            reviewRequest # Null /\ approvalReview # Null /\ isRecorded(timeToApprovalValue)
        firstCommentTime == IF commentRecorded THEN Some(timeToFirstComment) ELSE Null
        firstReviewTime == IF reviewRecorded THEN Some(timeToFirst) ELSE Null
        counted == countReviewType([personData EXCEPT !.prsReviewedSet = @ \cup {prNumber}],
                                   latestReview)
        updated ==
            [counted EXCEPT
               !.timeToFirstComment =
                   IF commentRecorded THEN Append(@, timeToFirstComment) ELSE @,
               !.timeToFirstReview =
                   IF reviewRecorded THEN Append(@, timeToFirst) ELSE @,
               !.timeToApproval =
                   IF approvalRecorded THEN Append(@, timeToApprovalValue) ELSE @,
               !.prDetailsMap =
                   mapSet(@, prNumber, [reviewStatus |-> latestReview.state,
                                        firstCommentTime |-> firstCommentTime,
                                        firstReviewTime |-> firstReviewTime])]
    IN  mapSet(pm1, reviewer, updated)

\* the loop over reviewsByPerson.entries(), from index j on
RECURSIVE processReviewers(_, _, _, _, _, _)
processReviewers(pm, prNumber, reviewsByPerson, prReviewRequests, prComments, j) ==
    IF j > Len(reviewsByPerson.keys) THEN pm
    ELSE LET reviewer == reviewsByPerson.keys[j]
         IN  processReviewers(
                 processReviewer(pm, prNumber, reviewer, mapGet(reviewsByPerson, reviewer),
                                 prReviewRequests, prComments),
                 prNumber, reviewsByPerson, prReviewRequests, prComments, j + 1)

\* isHumanReview letting every review pass
isHumanReviewAll(review) == TRUE

\* reviews.filter(review => !isBot(review.reviewer))
isHumanReview(review) == ~isBot[review.reviewer]

\* isHumanComment letting every comment pass
isHumanCommentAll(c) == TRUE

\* comments.filter(comment => !isBot(comment.commenter))
isHumanComment(c) == ~isBot[c.commenter]

\* Process reviews for each PR: the loop over reviews.entries(), from index i on
RECURSIVE processReviews(_, _, _, _, _)
processReviews(pm, revs, reqs, coms, i) ==
    IF i > Len(revs.keys) THEN pm
    ELSE LET prNumber == revs.keys[i]
             prReviews == mapGet(revs, prNumber)
             prReviewRequests == getOrEmpty(reqs, prNumber)
             prComments == getOrEmpty(coms, prNumber)
             filteredReviews == SelectSeq(prReviews, isHumanReview)
             reviewsByPerson ==
                 groupBy(EmptyMap,
                         [k \in 1..Len(filteredReviews) |->
                             <<filteredReviews[k].reviewer, filteredReviews[k]>>], 1)
         IN  processReviews(
                 processReviewers(pm, prNumber, reviewsByPerson, prReviewRequests,
                                  prComments, 1),
                 revs, reqs, coms, i + 1)

\* processCommenter without the test for a detail the person already has
processCommenterOverwriting(pm, prNumber, commenter, personComments, prReviewRequests) ==
    LET pm1 == ensurePerson(pm, commenter)
        personData == mapGet(pm1, commenter)
        reviewRequest == findReviewRequest(prReviewRequests, commenter)
        sortedComments == sortBy(personComments, createdAtOf)
        timeToFirstComment == sortedComments[1].createdAt - reviewRequest[1].requestedAt
        recorded ==
            reviewRequest # Null /\ Len(personComments) > 0 /\ isRecorded(timeToFirstComment)
    IN  mapSet(pm1, commenter,
               [personData EXCEPT
                  !.timeToFirstComment = IF recorded THEN Append(@, timeToFirstComment) ELSE @,
                  !.prDetailsMap =
                      mapSet(@, prNumber,
                             [reviewStatus |-> "COMMENTED_ONLY",
                              firstCommentTime |->
                                  IF recorded THEN Some(timeToFirstComment) ELSE Null,
                              firstReviewTime |-> Null])])

\* the body of the loop over commentsByPerson.entries(): one commenter's
\* comments on one PR
processCommenter(pm, prNumber, commenter, personComments, prReviewRequests) ==
    LET pm1 == ensurePerson(pm, commenter)
        personData == mapGet(pm1, commenter)
        reviewRequest == findReviewRequest(prReviewRequests, commenter)
        sortedComments == sortBy(personComments, createdAtOf)
        timeToFirstComment == sortedComments[1].createdAt - reviewRequest[1].requestedAt
        recorded ==
            reviewRequest # Null /\ Len(personComments) > 0 /\ isRecorded(timeToFirstComment)
        firstCommentTime == IF recorded THEN Some(timeToFirstComment) ELSE Null
        updated ==
            [personData EXCEPT
               !.timeToFirstComment = IF recorded THEN Append(@, timeToFirstComment) ELSE @,
               !.prDetailsMap =
                   mapSet(@, prNumber, [reviewStatus |-> "COMMENTED_ONLY",
                                        firstCommentTime |-> firstCommentTime,
                                        firstReviewTime |-> Null])]
    IN  IF ~mapHas(personData.prDetailsMap, prNumber)
        THEN mapSet(pm1, commenter, updated)
        ELSE pm1

\* the loop over commentsByPerson.entries(), from index j on
RECURSIVE processCommenters(_, _, _, _, _)
processCommenters(pm, prNumber, commentsByPerson, prReviewRequests, j) ==
    IF j > Len(commentsByPerson.keys) THEN pm
    ELSE LET commenter == commentsByPerson.keys[j]
         IN  processCommenters(
                 processCommenter(pm, prNumber, commenter,
                                  mapGet(commentsByPerson, commenter), prReviewRequests),
                 prNumber, commentsByPerson, prReviewRequests, j + 1)

\* Process PR comments for people who didn't submit formal reviews: the loop
\* over comments.entries(), from index i on
RECURSIVE processComments(_, _, _, _)
processComments(pm, reqs, coms, i) ==
    IF i > Len(coms.keys) THEN pm
    ELSE LET prNumber == coms.keys[i]
             prComments == mapGet(coms, prNumber)
             prReviewRequests == getOrEmpty(reqs, prNumber)
             filteredComments == SelectSeq(prComments, isHumanComment)
             commentsByPerson ==
                 groupBy(EmptyMap,
                         [k \in 1..Len(filteredComments) |->
                             <<filteredComments[k].commenter, filteredComments[k]>>], 1)
         IN  processComments(
                 processCommenters(pm, prNumber, commentsByPerson, prReviewRequests, 1),
                 reqs, coms, i + 1)

\* the personMap after the first two accumulation loops: the authors and
\* the review stage
reviewStage(prList, revs, reqs, coms) ==
    processReviews(countPRsOpened(EmptyMap, prList, 1), revs, reqs, coms, 1)

\* the personMap after the three accumulation loops
buildPersonMap(prList, revs, reqs, coms) ==
    processComments(reviewStage(prList, revs, reqs, coms), reqs, coms, 1)

\* 1000 * 60 * 60 * 24: the milliseconds of a day
DayMs == 1000 * 60 * 60 * 24

\* Date.now() at the r-th read of a call: the clock stands at clock.start
\* and, unless tickAt is 0, has advanced by a millisecond from the read
\* number tickAt on
readClock(c, r) == c.start + (IF c.tickAt # 0 /\ r >= c.tickAt THEN 1 ELSE 0)

\* the reads of Date.now() one detail row makes: line 581 for a PR that is
\* neither merged nor closed, and line 600
readsOf(pr) == IF pr.mergedAt = Null /\ pr.closedAt = Null THEN 2 ELSE 1

\* the reads made before row i of the k-th person of the conversion loop
readsBefore(prList, k, i) ==
    (k - 1) * sum([j \in 1..Len(prList) |-> readsOf(prList[j])])
        + sum([j \in 1..(i - 1) |-> readsOf(prList[j])])

\* time open: from readyForReview to merged/closed/now; r reads were made
\* before
timeOpenOf(pr, c, r) ==
    IF pr.mergedAt # Null THEN pr.mergedAt[1] - pr.readyForReviewAt
    ELSE IF pr.closedAt # Null THEN pr.closedAt[1] - pr.readyForReviewAt
    ELSE readClock(c, r + 1) - pr.readyForReviewAt

\* Math.floor((Date.now() - readyForReviewAt) / DayMs), the last read of the row
ageInDaysOf(pr, c, r) ==
    (readClock(c, r + readsOf(pr)) - pr.readyForReviewAt) \div DayMs

\* uniqueReviewers without the test for bots
RECURSIVE uniqueReviewersAll(_, _, _)
uniqueReviewersAll(acc, prReviews, i) ==
    IF i > Len(prReviews) THEN acc
    ELSE uniqueReviewersAll(acc \cup {prReviews[i].reviewer}, prReviews, i + 1)

\* unique people who formally reviewed (excluding bots): the loop over
\* prReviews, from index i on
RECURSIVE uniqueReviewers(_, _, _)
uniqueReviewers(acc, prReviews, i) ==
    IF i > Len(prReviews) THEN acc
    ELSE uniqueReviewers(IF ~isBot[prReviews[i].reviewer]
                         THEN acc \cup {prReviews[i].reviewer}
                         ELSE acc,
                         prReviews, i + 1)

\* reviewStatusOf looking at the stored detail before the authorship
reviewStatusDetailFirst(isOwnPR, prDetailsMap, prNumber) ==
    IF mapHas(prDetailsMap, prNumber) THEN mapGet(prDetailsMap, prNumber).reviewStatus
    ELSE IF isOwnPR THEN "OWN_PR"
    ELSE "NOT_REVIEWED"

\* reviewStatus: isOwnPR ? "OWN_PR" : (prDetail?.reviewStatus || "NOT_REVIEWED")
reviewStatusOf(isOwnPR, prDetailsMap, prNumber) ==
    IF isOwnPR THEN "OWN_PR"
    ELSE IF mapHas(prDetailsMap, prNumber) THEN mapGet(prDetailsMap, prNumber).reviewStatus
    ELSE "NOT_REVIEWED"

\* one PersonPRDetail: the body of the loop over prs inside the conversion;
\* r reads of Date.now() were made before
buildDetail(data, pr, revs, c, r) ==
    LET isOwnPR == pr.number \in data.ownPRNumbers
        hasDetail == mapHas(data.prDetailsMap, pr.number)
        prDetail == mapGet(data.prDetailsMap, pr.number)
        reviewerCount == Cardinality(uniqueReviewers({}, getOrEmpty(revs, pr.number), 1))
    IN  [prNumber |-> pr.number,
         author |-> pr.author,
         readyForReviewAt |-> pr.readyForReviewAt,
         ageInDays |-> ageInDaysOf(pr, c, r),
         timeOpen |-> timeOpenOf(pr, c, r),
         reviewStatus |-> reviewStatusOf(isOwnPR, data.prDetailsMap, pr.number),
         firstCommentTime |-> IF hasDetail THEN OrNull(prDetail.firstCommentTime) ELSE Null,
         firstReviewTime |-> IF hasDetail THEN OrNull(prDetail.firstReviewTime) ELSE Null,
         reviewerCount |-> reviewerCount]

\* buildPRDetails listing only the PRs the person has a stored detail for
buildPRDetailsTouched(data, prList, revs, c, k) ==
    LET touched(pr) == mapHas(data.prDetailsMap, pr.number)
        kept == SelectSeq(prList, touched)
    IN  [i \in 1..Len(kept) |-> buildDetail(data, kept[i], revs, c, readsBefore(kept, k, i))]

\* Build PR details for this person, the k-th of the conversion loop: the
\* loop over prs
buildPRDetails(data, prList, revs, c, k) ==
    [i \in 1..Len(prList) |->
        buildDetail(data, prList[i], revs, c, readsBefore(prList, k, i))]

\* participationRate without the test for zero eligible PRs
participationRateUnguarded(prsReviewedCount, totalPRsExcludingOwn) ==
    [num |-> prsReviewedCount * 100, den |-> totalPRsExcludingOwn]

\* totalPRsExcludingOwn > 0 ? (prsReviewedCount / totalPRsExcludingOwn) * 100 : 0
participationRate(prsReviewedCount, totalPRsExcludingOwn) ==
    IF totalPRsExcludingOwn > 0
    THEN [num |-> prsReviewedCount * 100, den |-> totalPRsExcludingOwn]
    ELSE [num |-> 0, den |-> 1]

\* prsReviewedExcludingOwn without the filter
prsReviewedAll(data) == data.prsReviewedSet

\* [...data.prsReviewedSet].filter(prNumber => !data.ownPRNumbers.has(prNumber))
prsReviewedExcludingOwn(data) ==
    {prNumber \in data.prsReviewedSet : prNumber \notin data.ownPRNumbers}

\* totalPRsExcludingOwnOf counting the person's own PRs instead of the others
ownPRCount(totalPRs, data) == Cardinality(data.ownPRNumbers)

\* const totalPRsExcludingOwn = totalPRs - data.ownPRNumbers.size
totalPRsExcludingOwnOf(totalPRs, data) == totalPRs - Cardinality(data.ownPRNumbers)

\* one PersonStats: the body of the loop over personMap.entries(), for its
\* k-th entry
buildPersonStats(person, data, prList, revs, c, k) ==
    LET totalPRs == Len(prList)
        totalReviewsGiven ==
            data.reviewsApproved + data.reviewsCommented + data.reviewsChangesRequested
        prsReviewedCount == Cardinality(prsReviewedExcludingOwn(data))
        totalPRsExcludingOwn == totalPRsExcludingOwnOf(totalPRs, data)
    IN  [person |-> person,
         prsOpened |-> data.prsOpened,
         reviewMetrics |-> [approved |-> data.reviewsApproved,
                            commented |-> data.reviewsCommented,
                            changesRequested |-> data.reviewsChangesRequested],
         totalReviewsGiven |-> totalReviewsGiven,
         uniquePRsReviewed |-> prsReviewedCount,
         reviewParticipationRate |-> participationRate(prsReviewedCount, totalPRsExcludingOwn),
         eligiblePRsForReview |-> totalPRsExcludingOwn,
         timeToFirstComment |-> calculateTimeMetrics(data.timeToFirstComment),
         timeToFirstReview |-> calculateTimeMetrics(data.timeToFirstReview),
         timeToApproval |-> calculateTimeMetrics(data.timeToApproval),
         prDetails |-> buildPRDetails(data, prList, revs, c, k)]

\* String.prototype.localeCompare on the usernames of the model: letters
\* compare without case first (punctuation before letters); strings equal up
\* to case put the lower-case letter first
CollationOrder == <<"-", "[", "]">> \o LowerCase
collationRank(c) == CHOOSE i \in 1..Len(CollationOrder) : CollationOrder[i] = toLowerCaseChar(c)

caseRank(c) == IF toLowerCaseChar(c) = c THEN 0 ELSE 1

\* lexicographic comparison of two sequences of numbers, from index i on
RECURSIVE compareFrom(_, _, _)
compareFrom(a, b, i) ==
    IF i > Len(a) /\ i > Len(b) THEN 0
    ELSE IF i > Len(a) THEN -1
    ELSE IF i > Len(b) THEN 1
    ELSE IF a[i] < b[i] THEN -1
    ELSE IF a[i] > b[i] THEN 1
    ELSE compareFrom(a, b, i + 1)

localeCompare(a, b) ==
    LET ca == charsOf[a]
        cb == charsOf[b]
        primary == compareFrom([i \in 1..Len(ca) |-> collationRank(ca[i])],
                               [i \in 1..Len(cb) |-> collationRank(cb[i])], 1)
    IN  IF primary # 0 THEN primary
        ELSE compareFrom([i \in 1..Len(ca) |-> caseRank(ca[i])],
                         [i \in 1..Len(cb) |-> caseRank(cb[i])], 1)

\* compareStats with the PRs opened ascending
compareStatsAscending(a, b) ==
    IF b.prsOpened # a.prsOpened THEN a.prsOpened - b.prsOpened
    ELSE localeCompare(a.person, b.person)

\* the comparator of stats.sort: PRs opened (descending), then person name
compareStats(a, b) ==
    IF b.prsOpened # a.prsOpened THEN b.prsOpened - a.prsOpened
    ELSE localeCompare(a.person, b.person)

\* stats.sort(compareStats): a stable sort, here by insertion
RECURSIVE insertStats(_, _)
insertStats(sorted, x) ==
    IF sorted = << >> THEN <<x>>
    ELSE IF compareStats(sorted[Len(sorted)], x) <= 0 THEN Append(sorted, x)
    ELSE Append(insertStats(SubSeq(sorted, 1, Len(sorted) - 1), x), sorted[Len(sorted)])

RECURSIVE sortStats(_)
sortStats(unsorted) ==
    IF unsorted = << >> THEN << >>
    ELSE insertStats(sortStats(SubSeq(unsorted, 1, Len(unsorted) - 1)),
                     unsorted[Len(unsorted)])

\* Convert map to array of PersonStats, then sort
buildStats(pm, prList, revs, c) ==
    sortStats([k \in 1..Len(pm.keys) |->
                  buildPersonStats(pm.keys[k], mapGet(pm, pm.keys[k]), prList, revs, c, k)])

calculateStats(prList, revs, reqs, coms, c) ==
    buildStats(buildPersonMap(prList, revs, reqs, coms), prList, revs, c)

\* the arguments once calculateStats has sorted the review and comment
\* arrays of the Maps themselves
inputsSortedInPlace(prList, revs, reqs, coms) ==
    [prs |-> prList,
     reviews |-> [revs EXCEPT !.val = [n \in DOMAIN revs.val |-> sortReviews(revs.val[n])]],
     reviewRequests |-> reqs,
     comments |-> [coms EXCEPT !.val = [n \in DOMAIN coms.val |->
                                            sortBy(coms.val[n], createdAtOf)]]]

\* the arguments when calculateStats returns: the PR list and the Maps are
\* read only (for-of, entries, get, filter, find, forEach); the two sorts
\* of input elements work on the copies [...personReviews] and
\* [...personComments], the other two on arrays built by the call
inputsAfter(prList, revs, reqs, coms) ==
    [prs |-> prList, reviews |-> revs, reviewRequests |-> reqs, comments |-> coms]

\* ----------------------------------------------------------- state machine
Times == 0..MaxTime

\* the PR numbers of the inputs, in the order of the PR list (newest first)
PRNumberList == <<2, 1>>
PRNumbers == {PRNumberList[i] : i \in 1..Len(PRNumberList)}

\* the person and the PR the inputs of SpecPair are about
PairPersons == {"bob"}
PairPRNumbers == {PRNumberList[1]}

totalEvents ==
    LET count(m) == sum([i \in 1..Len(m.keys) |-> Len(mapGet(m, m.keys[i]))])
    IN  count(reviews) + count(reviewRequests) + count(comments)

\* a Map holding an empty array for every PR of the list
emptyLists(prList) ==
    [keys |-> [i \in 1..Len(prList) |-> prList[i].number],
     val |-> [n \in {prList[i].number : i \in 1..Len(prList)} |-> << >>]]

push(m, k, x) == mapSet(m, k, Append(mapGet(m, k), x))

\* the lifecycle of a PR: ready for review at 0 and still open; merged (and
\* closed later); closed without a merge
OpenLifecycle == [readyForReviewAt |-> 0, mergedAt |-> Null, closedAt |-> Null]
Lifecycles ==
    {OpenLifecycle,
     [readyForReviewAt |-> 0, mergedAt |-> Some(1), closedAt |-> Some(2)],
     [readyForReviewAt |-> 0, mergedAt |-> Null, closedAt |-> Some(2)]}

\* the PR lists of the model: the PRs of PRNumberList, each with an author
\* and a lifecycle
prLists(people, lifecycles) ==
    {[i \in 1..Len(PRNumberList) |->
         [number |-> PRNumberList[i], author |-> authors[i],
          readyForReviewAt |-> cycles[i].readyForReviewAt,
          mergedAt |-> cycles[i].mergedAt,
          closedAt |-> cycles[i].closedAt]] :
       authors \in [1..Len(PRNumberList) -> people],
       cycles \in [1..Len(PRNumberList) -> lifecycles]}

\* the clock before the call
NoClock == [start |-> 0, tickAt |-> 0]

\* main before it starts (and in the specifications that call
\* calculateStats directly)
NoRun == [token |-> TRUE, allPrs |-> << >>, i |-> 0, pending |-> {}, resolved |-> << >>,
          steps |-> << >>]

InitWith(prListSet) ==
    /\ prs \in prListSet
    /\ reviews = emptyLists(prs)
    /\ reviewRequests = emptyLists(prs)
    /\ comments = emptyLists(prs)
    /\ personMap = EmptyMap
    /\ stats = << >>
    /\ pc = "input"
    /\ clock = NoClock
    /\ again = << >>
    /\ durations = << >>
    /\ metrics = Null
    /\ run = NoRun

\* PRs by any person, all still open
Init == InitWith(prLists(Persons, {OpenLifecycle}))

\* a review is appended to the review array of a PR
PushReview(people, numbers, limit) ==
    /\ pc = "input"
    /\ totalEvents < limit
    /\ \E n \in numbers, who \in people, st \in ReviewStates, t \in Times :
         reviews' = push(reviews, n, [prNumber |-> n, reviewer |-> who,
                                      state |-> st, submittedAt |-> t])
    /\ UNCHANGED <<prs, reviewRequests, comments, personMap, stats, pc, clock, again, durations, metrics, run>>

\* a review request is appended to the request array of a PR
PushReviewRequest(people, numbers, limit) ==
    /\ pc = "input"
    /\ totalEvents < limit
    /\ \E n \in numbers, who \in people, t \in Times :
         reviewRequests' = push(reviewRequests, n, [prNumber |-> n, reviewer |-> who,
                                                    requestedAt |-> t])
    /\ UNCHANGED <<prs, reviews, comments, personMap, stats, pc, clock, again, durations, metrics, run>>

\* a comment is appended to the comment array of a PR
PushComment(people, numbers, limit) ==
    /\ pc = "input"
    /\ totalEvents < limit
    /\ \E n \in numbers, who \in people, t \in Times :
         comments' = push(comments, n, [prNumber |-> n, commenter |-> who, createdAt |-> t])
    /\ UNCHANGED <<prs, reviews, reviewRequests, personMap, stats, pc, clock, again, durations, metrics, run>>

\* the number of reads of Date.now() a call makes for at most two persons
MaxReads == 2 * sum([j \in 1..Len(PRNumberList) |-> 2])

\* a clock that does not advance during the call
QuietClocks == {[start |-> MaxTime, tickAt |-> 0]}

\* the clocks of a call that starts at one of starts: the clock advances at
\* one of the reads, or not at all
clocksFrom(starts) == {[start |-> t, tickAt |-> r] : t \in starts, r \in 0..MaxReads}

\* the call calculateStats(prs, reviews, reviewRequests, comments), made
\* under one of the clocks
CalculateStats(clocks) ==
    /\ pc = "input"
    /\ clock' \in clocks
    /\ personMap' = buildPersonMap(prs, reviews, reviewRequests, comments)
    /\ stats' = buildStats(personMap', prs, reviews, clock')
    /\ LET after == inputsAfter(prs, reviews, reviewRequests, comments)
       IN  /\ prs' = after.prs
           /\ reviews' = after.reviews
           /\ reviewRequests' = after.reviewRequests
           /\ comments' = after.comments
    /\ pc' = "done"
    /\ UNCHANGED <<again, durations, metrics, run>>

\* inputs of up to MaxEvents events by any person on any PR
Next ==
    \/ PushReview(Persons, PRNumbers, MaxEvents)
    \/ PushReviewRequest(Persons, PRNumbers, MaxEvents)
    \/ PushComment(Persons, PRNumbers, MaxEvents)
    \/ CalculateStats(QuietClocks)

Spec == Init /\ [][Next]_vars

\* inputs of up to MaxPairEvents events, all of one person on one PR
NextPair ==
    \/ PushReview(PairPersons, PairPRNumbers, MaxPairEvents)
    \/ PushReviewRequest(PairPersons, PairPRNumbers, MaxPairEvents)
    \/ PushComment(PairPersons, PairPRNumbers, MaxPairEvents)
    \/ CalculateStats(QuietClocks)

SpecPair == Init /\ [][NextPair]_vars

\* the moments a call starts at: any moment, and the last millisecond of the
\* first day of a PR that was ready at 0
ClockStarts == {MaxTime, DayMs - 1}

\* a second call calculateStats(prs, reviews, reviewRequests, comments) on
\* the same input, made when the first one has returned
CalculateStatsAgain ==
    /\ pc = "done"
    /\ \E c \in clocksFrom({readClock(clock, MaxReads), readClock(clock, MaxReads) + 1}) :
          again' = calculateStats(prs, reviews, reviewRequests, comments, c)
    /\ pc' = "again"
    /\ UNCHANGED <<prs, reviews, reviewRequests, comments, personMap, stats, clock,
                   durations, metrics, run>>

\* PRs of any lifecycle, without reviews, requests or comments, and calls
\* made at any moment
InitClock == InitWith(prLists(Persons, Lifecycles))

NextClock ==
    \/ CalculateStats(clocksFrom(ClockStarts))
    \/ CalculateStatsAgain

SpecClock == InitClock /\ [][NextClock]_vars

\* the durations of SpecMetrics
DurationValues == {10, 20, 30, 40}

\* a duration is appended to the list
PushDuration ==
    /\ pc = "durations"
    /\ Len(durations) < MaxDurations
    /\ \E d \in DurationValues : durations' = Append(durations, d)
    /\ UNCHANGED <<prs, reviews, reviewRequests, comments, personMap, stats, pc, clock,
                   again, metrics, run>>

\* the call calculateTimeMetrics(durations)
CalculateTimeMetrics ==
    /\ pc = "durations"
    /\ metrics' = calculateTimeMetrics(durations)
    /\ durations' = durationsAfter(durations)
    /\ pc' = "metrics"
    /\ UNCHANGED <<prs, reviews, reviewRequests, comments, personMap, stats, clock, again, run>>

\* duration lists of up to MaxDurations elements
InitMetrics ==
    /\ prs = << >>
    /\ reviews = EmptyMap
    /\ reviewRequests = EmptyMap
    /\ comments = EmptyMap
    /\ personMap = EmptyMap
    /\ stats = << >>
    /\ pc = "durations"
    /\ clock = NoClock
    /\ again = << >>
    /\ durations = << >>
    /\ metrics = Null
    /\ run = NoRun

NextMetrics == PushDuration \/ CalculateTimeMetrics

SpecMetrics == InitMetrics /\ [][NextMetrics]_vars

\* the persons of SpecSort: names that differ in case only, and another one
SortPersons == {"alice", "bob", "Bob"}

\* open PRs by the persons of SortPersons, and up to MaxSortEvents reviews,
\* requests and comments of theirs
InitSort == InitWith(prLists(SortPersons, {OpenLifecycle}))

NextSort ==
    \/ PushReview(SortPersons, PRNumbers, MaxSortEvents)
    \/ PushReviewRequest(SortPersons, PRNumbers, MaxSortEvents)
    \/ PushComment(SortPersons, PRNumbers, MaxSortEvents)
    \/ CalculateStats(QuietClocks)

SpecSort == InitSort /\ [][NextSort]_vars

\* a PR number that no PR of the list carries
StrayPRNumber == 3

\* a review is appended to the review array kept under a key that is no PR
\* of the list: the reviews parameter is any Map<number, ReviewData[]>
PushStrayReview(people, limit) ==
    /\ pc = "input"
    /\ totalEvents < limit
    /\ \E who \in people, st \in ReviewStates, t \in Times :
         reviews' = mapSet(reviews, StrayPRNumber,
                           Append(getOrEmpty(reviews, StrayPRNumber),
                                  [prNumber |-> StrayPRNumber, reviewer |-> who,
                                   state |-> st, submittedAt |-> t]))
    /\ UNCHANGED <<prs, reviewRequests, comments, personMap, stats, pc, clock, again, durations, metrics, run>>

\* inputs of up to MaxEvents reviews, whose review Map may have a key
\* outside the PR list
NextAnyMap ==
    \/ PushReview(Persons, PRNumbers, MaxEvents)
    \/ PushStrayReview(Persons, MaxEvents)
    \/ CalculateStats(QuietClocks)

SpecAnyMap == Init /\ [][NextAnyMap]_vars

\* two hours, in milliseconds (Date.getTime() counts milliseconds)
TwoHours == 2 * 60 * 60 * 1000

\* the persons and the moments of the inputs of SpecScenario: requests and
\* comments at a moment T0, reviews two hours later, for two values of T0
ScenarioPersons == {"alice", "bob"}
ScenarioStarts == {0, 1000}
ScenarioTimes == {t + TwoHours : t \in ScenarioStarts}

\* a review is appended to the review array of a PR, two hours after one of
\* the moments of ScenarioStarts
PushReviewAt ==
    /\ pc = "input"
    /\ totalEvents < MaxScenarioEvents
    /\ \E n \in PRNumbers, who \in ScenarioPersons, st \in ReviewStates, t \in ScenarioTimes :
         reviews' = push(reviews, n, [prNumber |-> n, reviewer |-> who,
                                      state |-> st, submittedAt |-> t])
    /\ UNCHANGED <<prs, reviewRequests, comments, personMap, stats, pc, clock, again, durations, metrics, run>>

\* a review request is appended to the request array of a PR
PushReviewRequestAt ==
    /\ pc = "input"
    /\ totalEvents < MaxScenarioEvents
    /\ \E n \in PRNumbers, who \in ScenarioPersons, t \in ScenarioStarts :
         reviewRequests' = push(reviewRequests, n, [prNumber |-> n, reviewer |-> who,
                                                    requestedAt |-> t])
    /\ UNCHANGED <<prs, reviews, comments, personMap, stats, pc, clock, again, durations, metrics, run>>

\* a comment is appended to the comment array of a PR
PushCommentAt ==
    /\ pc = "input"
    /\ totalEvents < MaxScenarioEvents
    /\ \E n \in PRNumbers, who \in ScenarioPersons, t \in ScenarioStarts :
         comments' = push(comments, n, [prNumber |-> n, commenter |-> who, createdAt |-> t])
    /\ UNCHANGED <<prs, reviews, reviewRequests, personMap, stats, pc, clock, again, durations, metrics, run>>

\* open PRs by alice and bob, and up to MaxScenarioEvents reviews, requests
\* and comments of theirs, two hours apart
InitScenario == InitWith(prLists(ScenarioPersons, {OpenLifecycle}))

\* a clock that stands after every moment of ScenarioTimes
ScenarioClocks == {[start |-> 2 * TwoHours, tickAt |-> 0]}

NextScenario ==
    \/ PushReviewAt
    \/ PushReviewRequestAt
    \/ PushCommentAt
    \/ CalculateStats(ScenarioClocks)

SpecScenario == InitScenario /\ [][NextScenario]_vars

\* -------------------------------------------------------------------- main
\* the four fetches main starts for one PR inside Promise.all
Fetches == {"fetchReviews", "fetchReviewRequests", "fetchPRComments",
            "fetchReadyForReviewDate"}

\* what main runs once the statistics are there: the display and the five
\* exports, in the order of the code
ExportSteps == <<"display", "exportSummaryTable", "exportSummaryTableCSV",
                 "exportPersonReports", "exportPersonReportsCSV", "exportToExcel">>

\* the authors of the PRs fetchPullRequests returns
MainAuthors == {"alice", "Renovate[bot]"}

\* the lists fetchPullRequests resolves to: up to two PRs, newest first,
\* each a draft or not, readyForReviewAt being createdAt
FetchedPRLists ==
    UNION {{[i \in 1..len |->
                [number |-> len + 1 - i, author |-> authors[i], isDraft |-> drafts[i],
                 readyForReviewAt |-> 0, mergedAt |-> Null, closedAt |-> Null]] :
              authors \in [1..len -> MainAuthors], drafts \in [1..len -> BOOLEAN]} :
           len \in 0..Len(PRNumberList)}

\* the values a fetch for PR n resolves to
ResolvedValues(f, n) ==
    IF f = "fetchReviews"
    THEN {<< >>, <<[prNumber |-> n, reviewer |-> "bob", state |-> "APPROVED",
                    submittedAt |-> MaxTime]>>}
    ELSE IF f = "fetchReviewRequests"
    THEN {<< >>, <<[prNumber |-> n, reviewer |-> "bob", requestedAt |-> 0]>>}
    ELSE IF f = "fetchPRComments"
    THEN {<< >>, <<[prNumber |-> n, commenter |-> "alice", createdAt |-> 1]>>}
    ELSE {Null, Some(1)}

\* const prsWithoutBots = allPrs.filter(pr => !isBot(pr.author));
\* const prs = prsWithoutBots.filter(pr => !pr.isDraft)
filterPRs(allPrs) ==
    LET notBot(pr) == ~isBot[pr.author]
        notDraft(pr) == ~pr.isDraft
    IN  SelectSeq(SelectSeq(allPrs, notBot), notDraft)

\* hasNoPRs letting every list pass
hasNoPRsNever(prList) == FALSE

\* if (prs.length === 0) return
hasNoPRs(prList) == Len(prList) = 0

\* await Promise.all([...]) resumes when none of its fetches is outstanding
allSettled(pending) == pending = {}

\* main up to its first await: without a token the process exits
MainStart ==
    /\ pc = "main"
    /\ pc' = IF run.token THEN "fetchPullRequests" ELSE "exited"
    /\ UNCHANGED <<prs, reviews, reviewRequests, comments, personMap, stats, clock, again,
                   durations, metrics, run>>

\* fetchPullRequests resolves: the list is filtered, and main returns if
\* nothing is left
PullRequestsFetched ==
    /\ pc = "fetchPullRequests"
    /\ \E allPrs \in FetchedPRLists :
          /\ run' = [run EXCEPT !.allPrs = allPrs, !.i = 1]
          /\ prs' = filterPRs(allPrs)
          /\ pc' = IF hasNoPRs(filterPRs(allPrs)) THEN "returned" ELSE "loop"
    /\ UNCHANGED <<reviews, reviewRequests, comments, personMap, stats, clock, again,
                   durations, metrics>>

\* fetchPullRequests rejects: main().catch exits the process
PullRequestsRejected ==
    /\ pc = "fetchPullRequests"
    /\ pc' = "exited"
    /\ UNCHANGED <<prs, reviews, reviewRequests, comments, personMap, stats, clock, again,
                   durations, metrics, run>>

\* the head of the loop over prs: after the last PR the statistics are
\* calculated, otherwise the four fetches of prs[i] are started
StartFetches ==
    /\ pc = "loop"
    /\ IF run.i > Len(prs)
       THEN /\ pc' = "calculateStats"
            /\ run' = run
       ELSE /\ pc' = "awaitAll"
            /\ run' = [run EXCEPT !.pending = @ \cup {<<prs[run.i].number, f>> : f \in Fetches}]
    /\ UNCHANGED <<prs, reviews, reviewRequests, comments, personMap, stats, clock, again,
                   durations, metrics>>

\* one of the outstanding fetches resolves
FetchResolved ==
    /\ pc # "exited"
    /\ \E fetch \in run.pending :
          \E value \in ResolvedValues(fetch[2], fetch[1]) :
              run' = [run EXCEPT !.pending = @ \ {fetch},
                                 !.resolved = (fetch :> value) @@ @]
    /\ UNCHANGED <<prs, reviews, reviewRequests, comments, personMap, stats, pc, clock, again,
                   durations, metrics>>

\* fetchReviews, which catches nothing, rejects: Promise.all rejects at
\* once, whatever is still outstanding, and main().catch exits the process
ReviewsRejected ==
    /\ pc = "awaitAll"
    /\ <<prs[run.i].number, "fetchReviews">> \in run.pending
    /\ pc' = "exited"
    /\ UNCHANGED <<prs, reviews, reviewRequests, comments, personMap, stats, clock, again,
                   durations, metrics, run>>

\* Promise.all resolves: the rest of the loop body for prs[i]
FetchesSettled ==
    /\ pc = "awaitAll"
    /\ allSettled(run.pending)
    /\ LET pr == prs[run.i]
           readyForReviewDate == run.resolved[<<pr.number, "fetchReadyForReviewDate">>]
       IN  /\ prs' = [prs EXCEPT ![run.i].readyForReviewAt =
                          IF readyForReviewDate # Null THEN readyForReviewDate[1] ELSE @]
           /\ reviews' = mapSet(reviews, pr.number, run.resolved[<<pr.number, "fetchReviews">>])
           /\ reviewRequests' = mapSet(reviewRequests, pr.number,
                                       run.resolved[<<pr.number, "fetchReviewRequests">>])
           /\ comments' = mapSet(comments, pr.number,
                                 run.resolved[<<pr.number, "fetchPRComments">>])
    /\ run' = [run EXCEPT !.i = @ + 1]
    /\ pc' = "loop"
    /\ UNCHANGED <<personMap, stats, clock, again, durations, metrics>>

\* const personStats = calculateStats(prs, reviewsMap, reviewRequestsMap,
\* commentsMap)
MainCalculateStats ==
    /\ pc = "calculateStats"
    /\ clock' \in QuietClocks
    /\ personMap' = buildPersonMap(prs, reviews, reviewRequests, comments)
    /\ stats' = buildStats(personMap', prs, reviews, clock')
    /\ LET after == inputsAfter(prs, reviews, reviewRequests, comments)
       IN  /\ prs' = after.prs
           /\ reviews' = after.reviews
           /\ reviewRequests' = after.reviewRequests
           /\ comments' = after.comments
    /\ run' = [run EXCEPT !.steps = Append(@, "calculateStats")]
    /\ pc' = "export"
    /\ UNCHANGED <<again, durations, metrics>>

\* the next of the display and export steps; main returns after the last
Export ==
    /\ pc = "export"
    /\ run' = [run EXCEPT !.steps = Append(@, ExportSteps[Len(@)])]
    /\ pc' = IF Len(run.steps) = Len(ExportSteps) THEN "returned" ELSE "export"
    /\ UNCHANGED <<prs, reviews, reviewRequests, comments, personMap, stats, clock, again,
                   durations, metrics>>

\* main is called, with or without a token in the configuration
InitMain ==
    /\ prs = << >>
    /\ reviews = EmptyMap
    /\ reviewRequests = EmptyMap
    /\ comments = EmptyMap
    /\ personMap = EmptyMap
    /\ stats = << >>
    /\ pc = "main"
    /\ clock = NoClock
    /\ again = << >>
    /\ durations = << >>
    /\ metrics = Null
    /\ run \in {[NoRun EXCEPT !.token = t] : t \in BOOLEAN}

NextMain ==
    \/ MainStart
    \/ PullRequestsFetched
    \/ PullRequestsRejected
    \/ StartFetches
    \/ FetchResolved
    \/ ReviewsRejected
    \/ FetchesSettled
    \/ MainCalculateStats
    \/ Export

SpecMain == InitMain /\ [][NextMain]_vars

\* ------------------------------------------------- what the claims speak of
\* The definitions below read the input and the output of the call; they
\* state what is expected from the input alone, by sets, not by the loops.
Done == pc = "done"

setMax(S) == CHOOSE x \in S : \A y \in S : y <= x
setMin(S) == CHOOSE x \in S : \A y \in S : x <= y
countIn(seq, v) == Cardinality({i \in 1..Len(seq) : seq[i] = v})

inputPRs == {prs[i].number : i \in 1..Len(prs)}
authorOf(n) == prs[CHOOSE i \in 1..Len(prs) : prs[i].number = n].author
Humans == {p \in Persons : ~isBot[p]}

outPersons == {stats[k].person : k \in 1..Len(stats)}
statsOf(p) == stats[CHOOSE k \in 1..Len(stats) : stats[k].person = p]
rowOf(p, n) ==
    LET rows == statsOf(p).prDetails
    IN  rows[CHOOSE i \in 1..Len(rows) : rows[i].prNumber = n]
stubOf(p, n) == mapGet(mapGet(personMap, p).prDetailsMap, n)
hasStub(p, n) == mapHas(personMap, p) /\ mapHas(mapGet(personMap, p).prDetailsMap, n)

\* the reviews, comments and requests of person p on PR n, as positions in
\* the arrays of the input
reviewsBy(p, n) ==
    {i \in 1..Len(mapGet(reviews, n)) : mapGet(reviews, n)[i].reviewer = p}
commentsBy(p, n) ==
    {i \in 1..Len(mapGet(comments, n)) : mapGet(comments, n)[i].commenter = p}
requestsFor(p, n) ==
    {i \in 1..Len(mapGet(reviewRequests, n)) : mapGet(reviewRequests, n)[i].reviewer = p}

reviewTimes(p, n) == {mapGet(reviews, n)[i].submittedAt : i \in reviewsBy(p, n)}
formalTimes(p, n) ==
    {mapGet(reviews, n)[i].submittedAt :
        i \in {j \in reviewsBy(p, n) :
                 mapGet(reviews, n)[j].state \in {"APPROVED", "CHANGES_REQUESTED"}}}
commentTimes(p, n) == {mapGet(comments, n)[i].createdAt : i \in commentsBy(p, n)}
requestTimes(p, n) == {mapGet(reviewRequests, n)[i].requestedAt : i \in requestsFor(p, n)}
reviewStatesOf(p, n) == {mapGet(reviews, n)[i].state : i \in reviewsBy(p, n)}

\* the state of the most recently submitted review of p on n; of the reviews
\* that share the latest timestamp, the last one of the array
lastState(p, n) ==
    mapGet(reviews, n)[setMax({j \in reviewsBy(p, n) :
                                  mapGet(reviews, n)[j].submittedAt
                                      = setMax(reviewTimes(p, n))})].state

reviewedPRs(p) == {n \in inputPRs : reviewsBy(p, n) # {}}

\* the request the code matches to p on n: the first one of the array
matchedRequestTime(p, n) ==
    mapGet(reviewRequests, n)[setMin(requestsFor(p, n))].requestedAt

\* the response times of p on n
responseTimes(p, n) ==
    IF reviewsBy(p, n) # {} THEN reviewTimes(p, n) \cup commentTimes(p, n)
    ELSE commentTimes(p, n)

\* the expected deltas of p on n, as nullable numbers: null when there is
\* no request, no response, or the delta is negative
expectedDelta(p, n, times) ==
    IF requestsFor(p, n) = {} \/ times = {} THEN Null
    ELSE IF setMin(times) - matchedRequestTime(p, n) < 0 THEN Null
    ELSE Some(setMin(times) - matchedRequestTime(p, n))
expectedCommentDelta(p, n) == expectedDelta(p, n, responseTimes(p, n))
expectedReviewDelta(p, n) == expectedDelta(p, n, formalTimes(p, n))

\* a timing collection holds exactly the expected non-null deltas, one per PR
holdsDeltas(collection, p, Delta(_, _)) ==
    /\ Len(collection) = Cardinality({n \in inputPRs : Delta(p, n) # Null})
    /\ \A n \in inputPRs :
          Delta(p, n) # Null =>
              countIn(collection, Delta(p, n)[1])
                  = Cardinality({m \in inputPRs : Delta(p, m) = Delta(p, n)})

bucket(tally, state) ==
    IF state = "APPROVED" THEN tally.approved
    ELSE IF state = "COMMENTED" THEN tally.commented
    ELSE tally.changesRequested

\* ------------------------------------------------------------------ claims

\* C1: every person's prDetails holds exactly one entry per pull request of
\* the input list, in every case (also for PRs the person never touched), so
\* its length is the number of input pull requests.
C1_DetailListComplete ==
    Done =>
        \A k \in 1..Len(stats) :
            /\ Len(stats[k].prDetails) = Len(prs)
            /\ \A i \in 1..Len(prs) :
                  Cardinality({j \in 1..Len(stats[k].prDetails) :
                                  stats[k].prDetails[j].prNumber = prs[i].number}) = 1

\* a person of the output who neither wrote, reviewed nor commented on some
\* PR has a row for it all the same
C1_Witness ==
    /\ Done
    /\ \E p \in outPersons, n \in inputPRs :
          /\ authorOf(n) # p
          /\ reviewsBy(p, n) = {}
          /\ commentsBy(p, n) = {}
          /\ rowOf(p, n).reviewStatus = "NOT_REVIEWED"
          /\ Len(statsOf(p).prDetails) = Len(prs)

\* C2: a detail row of person p for PR n is OWN_PR if and only if p is the
\* author of n, also when p reviewed or commented on the own PR.
C2_OwnPRIffAuthor ==
    Done =>
        \A p \in outPersons, n \in inputPRs :
            (rowOf(p, n).reviewStatus = "OWN_PR") <=> (authorOf(n) = p)

\* an author who reviewed the own PR, and another person who reviewed it too
C2_Witness ==
    /\ Done
    /\ \E p \in outPersons, q \in outPersons, n \in inputPRs :
          /\ p # q
          /\ authorOf(n) = p
          /\ reviewsBy(p, n) # {}
          /\ reviewsBy(q, n) # {}
          /\ rowOf(p, n).reviewStatus = "OWN_PR"
          /\ rowOf(q, n).reviewStatus \in ReviewStates

\* C3: every (reviewer, PR) pair with one or more reviews adds exactly 1 to
\* exactly one of the reviewer's three buckets, the bucket of the state of
\* the reviewer's most recently submitted review on that PR (of reviews with
\* the same timestamp, the last one of the array is the most recent).
C3_OneBucketPerPair ==
    Done =>
        \A p \in Humans :
            reviewedPRs(p) # {} =>
                /\ p \in outPersons
                /\ LET m == statsOf(p).reviewMetrics
                   IN  /\ m.approved + m.commented + m.changesRequested
                            = Cardinality(reviewedPRs(p))
                       /\ \A st \in ReviewStates :
                            bucket(m, st) =
                                Cardinality({n \in reviewedPRs(p) : lastState(p, n) = st})

\* a reviewer whose later review comes first in the array and differs in
\* state from the earlier one: only the later one is counted
C3_Witness ==
    /\ Done
    /\ \E p \in Humans, n \in inputPRs :
          \E i \in reviewsBy(p, n), j \in reviewsBy(p, n) :
              /\ i < j
              /\ mapGet(reviews, n)[i].submittedAt > mapGet(reviews, n)[j].submittedAt
              /\ mapGet(reviews, n)[i].state # mapGet(reviews, n)[j].state
              /\ bucket(statsOf(p).reviewMetrics, mapGet(reviews, n)[i].state) = 1
              /\ bucket(statsOf(p).reviewMetrics, mapGet(reviews, n)[j].state) = 0

\* the status the claim C4 gives a row: the first class that applies in the
\* order OWN_PR > APPROVED > CHANGES_REQUESTED > COMMENTED > COMMENTED_ONLY >
\* NOT_REVIEWED
priorityStatus(p, n) ==
    IF authorOf(n) = p THEN "OWN_PR"
    ELSE IF "APPROVED" \in reviewStatesOf(p, n) THEN "APPROVED"
    ELSE IF "CHANGES_REQUESTED" \in reviewStatesOf(p, n) THEN "CHANGES_REQUESTED"
    ELSE IF "COMMENTED" \in reviewStatesOf(p, n) THEN "COMMENTED"
    ELSE IF commentsBy(p, n) # {} THEN "COMMENTED_ONLY"
    ELSE "NOT_REVIEWED"

\* C4 as claimed: the reviewStatus of each row is the first class that
\* applies in the priority order; a non-author with an APPROVED review is
\* APPROVED whatever other reviews of theirs exist.
C4_PriorityOrder ==
    Done =>
        \A p \in outPersons, n \in inputPRs :
            rowOf(p, n).reviewStatus = priorityStatus(p, n)

\* C4 as amended: OWN_PR for the author; else, for a person with reviews
\* on the PR, the state of the most recently submitted one (of reviews with
\* the same timestamp, the last one of the array); else
\* COMMENTED_ONLY for a person with a comment; else NOT_REVIEWED.
C4_LatestReviewStatus ==
    Done =>
        \A p \in outPersons, n \in inputPRs :
            LET status == rowOf(p, n).reviewStatus
            IN  IF authorOf(n) = p THEN status = "OWN_PR"
                ELSE IF reviewsBy(p, n) # {} THEN status = lastState(p, n)
                ELSE IF commentsBy(p, n) # {} THEN status = "COMMENTED_ONLY"
                ELSE status = "NOT_REVIEWED"

\* a non-author who approved and later submitted a COMMENTED review is
\* classified COMMENTED
C4_Witness ==
    /\ Done
    /\ \E p \in outPersons, n \in inputPRs :
          /\ authorOf(n) # p
          /\ \E i \in reviewsBy(p, n), j \in reviewsBy(p, n) :
                /\ mapGet(reviews, n)[i].state = "APPROVED"
                /\ mapGet(reviews, n)[j].state = "COMMENTED"
                /\ mapGet(reviews, n)[i].submittedAt < mapGet(reviews, n)[j].submittedAt
          /\ rowOf(p, n).reviewStatus = "COMMENTED"

\* the collections of person p as calculateStats holds them when the
\* conversion starts
collectionsOf(p) == mapGet(personMap, p)

\* p has a response on n that is earlier than the matched request
negativeDelta(p, n, times) ==
    /\ requestsFor(p, n) # {}
    /\ times # {}
    /\ setMin(times) - matchedRequestTime(p, n) < 0

\* C5: a response timestamped before the matched review request (a negative
\* delta) is added to none of the person's three timing collections, which
\* hold the non-negative deltas only, and the detail timing field of that
\* delta is null; the reviewer's tally and the stored reviewStatus are what
\* they are with a non-negative delta: the latest review's state, counted
\* once.
C5_NegativeDeltaExcluded ==
    Done =>
        \A p \in Humans :
            mapHas(personMap, p) =>
                /\ holdsDeltas(collectionsOf(p).timeToFirstComment, p, expectedCommentDelta)
                /\ holdsDeltas(collectionsOf(p).timeToFirstReview, p, expectedReviewDelta)
                /\ holdsDeltas(collectionsOf(p).timeToApproval, p, expectedReviewDelta)
                /\ \A k \in 1..Len(collectionsOf(p).timeToFirstComment) :
                      collectionsOf(p).timeToFirstComment[k] >= 0
                /\ \A k \in 1..Len(collectionsOf(p).timeToFirstReview) :
                      collectionsOf(p).timeToFirstReview[k] >= 0
                /\ \A k \in 1..Len(collectionsOf(p).timeToApproval) :
                      collectionsOf(p).timeToApproval[k] >= 0
                /\ \A n \in inputPRs :
                      /\ negativeDelta(p, n, responseTimes(p, n)) =>
                            /\ hasStub(p, n)
                            /\ stubOf(p, n).firstCommentTime = Null
                            /\ rowOf(p, n).firstCommentTime = Null
                      /\ negativeDelta(p, n, formalTimes(p, n)) =>
                            /\ hasStub(p, n)
                            /\ stubOf(p, n).firstReviewTime = Null
                            /\ rowOf(p, n).firstReviewTime = Null
                      /\ (negativeDelta(p, n, responseTimes(p, n)) /\ reviewsBy(p, n) # {}) =>
                            /\ stubOf(p, n).reviewStatus = lastState(p, n)
                            /\ rowOf(p, n).reviewStatus
                                   = IF authorOf(n) = p THEN "OWN_PR" ELSE lastState(p, n)
                            /\ \A st \in ReviewStates :
                                  bucket(statsOf(p).reviewMetrics, st) =
                                      Cardinality({m \in reviewedPRs(p) : lastState(p, m) = st})
                      /\ (negativeDelta(p, n, responseTimes(p, n)) /\ reviewsBy(p, n) = {}) =>
                            stubOf(p, n).reviewStatus = "COMMENTED_ONLY"

\* a requested reviewer whose comment precedes the request and whose
\* approval follows it: no first-comment time, a first-review time, and the
\* approval tallied
C5_Witness ==
    /\ Done
    /\ \E p \in Humans, n \in inputPRs :
          /\ authorOf(n) # p
          /\ negativeDelta(p, n, responseTimes(p, n))
          /\ ~negativeDelta(p, n, formalTimes(p, n))
          /\ formalTimes(p, n) # {}
          /\ collectionsOf(p).timeToFirstComment = << >>
          /\ Len(collectionsOf(p).timeToFirstReview) = 1
          /\ rowOf(p, n).firstCommentTime = Null
          /\ rowOf(p, n).firstReviewTime # Null
          /\ rowOf(p, n).reviewStatus = lastState(p, n)
          /\ bucket(statsOf(p).reviewMetrics, lastState(p, n)) = 1

\* the delta of the earliest of times from origin, as a nullable number:
\* null when there is no response or the delta is negative
deltaFrom(origin, times) ==
    IF times = {} THEN Null
    ELSE IF setMin(times) - origin < 0 THEN Null
    ELSE Some(setMin(times) - origin)

\* C6: when a reviewer was requested more than once on a PR, every timing of
\* that (PR, reviewer) pair has the earliest request timestamp as its origin.
C6_EarliestRequestOrigin ==
    Done =>
        \A p \in Humans, n \in inputPRs :
            (hasStub(p, n) /\ Cardinality(requestsFor(p, n)) > 1) =>
                LET origin == setMin(requestTimes(p, n))
                IN  /\ stubOf(p, n).firstCommentTime = deltaFrom(origin, responseTimes(p, n))
                    /\ stubOf(p, n).firstReviewTime = deltaFrom(origin, formalTimes(p, n))

\* p submitted a COMMENTED review on n and, later, an APPROVED review
commentedThenApproved(p, n) ==
    \E i \in reviewsBy(p, n), j \in reviewsBy(p, n) :
        /\ mapGet(reviews, n)[i].state = "COMMENTED"
        /\ mapGet(reviews, n)[j].state = "APPROVED"
        /\ mapGet(reviews, n)[i].submittedAt < mapGet(reviews, n)[j].submittedAt

\* p was requested on n, at one timestamp
requestedOnce(p, n) == Cardinality(requestTimes(p, n)) = 1

\* C7: for a requested reviewer who submitted a COMMENTED review and later
\* an APPROVED review on a PR: time-to-first-review is the timestamp of the
\* earliest APPROVED or CHANGES_REQUESTED review minus the request timestamp,
\* never the COMMENTED review's; time-to-first-comment is the earliest
\* timestamp among all the reviewer's reviews and comments on the PR minus
\* the request timestamp (either is absent when negative), and the timing
\* collections hold these values; and, the APPROVED review being the latest,
\* the pair is tallied once, as approved and not as commented.
C7_CommentedThenApproved ==
    Done =>
        \A p \in Humans, n \in inputPRs :
            (requestedOnce(p, n) /\ commentedThenApproved(p, n)) =>
                LET origin == setMin(requestTimes(p, n))
                    firstReview == deltaFrom(origin, formalTimes(p, n))
                    firstComment ==
                        deltaFrom(origin, reviewTimes(p, n) \cup commentTimes(p, n))
                    data == collectionsOf(p)
                    m == statsOf(p).reviewMetrics
                IN  /\ stubOf(p, n).firstReviewTime = firstReview
                    /\ stubOf(p, n).firstCommentTime = firstComment
                    /\ expectedReviewDelta(p, n) = firstReview
                    /\ expectedCommentDelta(p, n) = firstComment
                    /\ holdsDeltas(data.timeToFirstReview, p, expectedReviewDelta)
                    /\ holdsDeltas(data.timeToApproval, p, expectedReviewDelta)
                    /\ holdsDeltas(data.timeToFirstComment, p, expectedCommentDelta)
                    /\ lastState(p, n) = "APPROVED" =>
                          /\ m.approved
                                = Cardinality({k \in reviewedPRs(p) : lastState(p, k) = "APPROVED"})
                          /\ m.commented
                                = Cardinality({k \in reviewedPRs(p) \ {n} :
                                                 lastState(p, k) = "COMMENTED"})
                          /\ m.approved + m.commented + m.changesRequested
                                = Cardinality(reviewedPRs(p))

\* request, then an informal comment, then a COMMENTED review, then the
\* approval: first comment measured from the informal comment, first review
\* from the approval, one approval tallied
C7_Witness ==
    /\ Done
    /\ \E p \in Humans, n \in inputPRs :
          /\ requestedOnce(p, n)
          /\ commentedThenApproved(p, n)
          /\ lastState(p, n) = "APPROVED"
          /\ commentTimes(p, n) # {}
          /\ setMin(commentTimes(p, n)) < setMin(reviewTimes(p, n))
          /\ setMin(requestTimes(p, n)) <= setMin(commentTimes(p, n))
          /\ stubOf(p, n).firstCommentTime
                 = Some(setMin(commentTimes(p, n)) - setMin(requestTimes(p, n)))
          /\ stubOf(p, n).firstReviewTime
                 = Some(setMin(formalTimes(p, n)) - setMin(requestTimes(p, n)))
          /\ collectionsOf(p).timeToFirstReview
                 = <<setMin(formalTimes(p, n)) - setMin(requestTimes(p, n))>>
          /\ statsOf(p).reviewMetrics.approved = 1
          /\ statsOf(p).reviewMetrics.commented = 0

\* a Map of arrays without the elements of bots
withoutBots(m, Who(_)) ==
    LET byHuman(x) == Who(x) \in Humans
    IN  [keys |-> m.keys, val |-> [k \in DOMAIN m.val |-> SelectSeq(m.val[k], byHuman)]]
reviewerOf(review) == review.reviewer
commenterOf(comment) == comment.commenter

\* C8: isBot is the case-insensitive substring match of renovate, copilot
\* and dependabot; no such identity is a person of the output; the output is
\* the one of the same input without the reviews and comments of bots, so
\* these change no count, tally or timing of anybody; and a row's
\* reviewerCount counts the PR's human reviewers only.
C8_BotsExcluded ==
    /\ isBot["Renovate[bot]"] /\ isBot["my-COPILOT"] /\ isBot["dependabot"]
    /\ ~isBot["robot"] /\ ~isBot["bob"] /\ ~isBot["Bob"] /\ ~isBot["alice"]
    /\ Done =>
          /\ \A k \in 1..Len(stats) : ~isBot[stats[k].person]
          /\ stats = calculateStats(prs, withoutBots(reviews, reviewerOf), reviewRequests,
                                    withoutBots(comments, commenterOf), clock)
          /\ \A k \in 1..Len(stats), i \in 1..Len(prs) :
                stats[k].prDetails[i].reviewerCount
                    = Cardinality({q \in Humans : reviewsBy(q, prs[i].number) # {}})

\* a bot and a human reviewed the same PR: the bot is no person of the
\* output and the PR has one reviewer
C8_Witness ==
    /\ Done
    /\ \E b \in Persons \ Humans, q \in Humans, n \in inputPRs :
          /\ reviewsBy(b, n) # {}
          /\ reviewsBy(q, n) # {}
          /\ b \notin outPersons
          /\ rowOf(q, n).reviewerCount = 1

\* C9: the persons of the output are exactly the non-bot identities that
\* are the author of an input PR, the reviewer of an input review or the
\* commenter of an input comment, each once; an identity that is only a
\* requested reviewer is absent.
C9_PersonSet ==
    Done =>
        /\ outPersons =
              {p \in Humans :
                  \E n \in inputPRs :
                      authorOf(n) = p \/ reviewsBy(p, n) # {} \/ commentsBy(p, n) # {}}
        /\ Len(stats) = Cardinality(outPersons)

\* a person who was requested, and nothing else, is absent from an output
\* that holds somebody else
C9_Witness ==
    /\ Done
    /\ \E p \in Humans, n \in inputPRs :
          /\ requestsFor(p, n) # {}
          /\ \A k \in inputPRs :
                authorOf(k) # p /\ reviewsBy(p, k) = {} /\ commentsBy(p, k) = {}
          /\ p \notin outPersons
          /\ outPersons # {}

C11_SameOutputAtAnyMoment ==
    pc = "again" => again = stats

\* seq with its elements i and i + 1 exchanged
swapAt(seq, i) ==
    [j \in 1..Len(seq) |-> IF j = i THEN seq[i + 1] ELSE IF j = i + 1 THEN seq[i] ELSE seq[j]]

\* the Maps that differ from m by the exchange of two neighbours in the
\* array of one PR; the permutations of the arrays are compositions of such
\* exchanges
neighbourSwaps(m) ==
    UNION {{mapSet(m, n, swapAt(mapGet(m, n), i)) : i \in 1..(Len(mapGet(m, n)) - 1)} :
              n \in inputPRs}

\* C12: the output does not depend on the order of the elements inside any
\* PR's review list, review-request list or comment list: exchanging two
\* neighbours of a list (reviews with equal timestamps and repeated requests
\* for one reviewer included) yields the same output.
C12_OrderInsensitive ==
    Done =>
        /\ \A m \in neighbourSwaps(reviews) :
              calculateStats(prs, m, reviewRequests, comments, clock) = stats
        /\ \A m \in neighbourSwaps(reviewRequests) :
              calculateStats(prs, reviews, m, comments, clock) = stats
        /\ \A m \in neighbourSwaps(comments) :
              calculateStats(prs, reviews, reviewRequests, m, clock) = stats

\* the number of PRs of the input that p authored
authored(p) == Cardinality({i \in 1..Len(prs) : prs[i].author = p})

\* a precedes b as identity strings, in the order of localeCompare
precedes(a, b) == localeCompare(a, b) < 0

\* C13: the returned list is sorted by prsOpened (the number of PRs the
\* person authored) descending, persons with equal prsOpened by identity
\* string ascending: of two adjacent entries a, b either a has more PRs
\* opened, or as many and a.person precedes b.person.
C13_Sorted ==
    Done =>
        /\ \A k \in 1..Len(stats) : stats[k].prsOpened = authored(stats[k].person)
        /\ \A k \in 1..(Len(stats) - 1) :
              \/ stats[k].prsOpened > stats[k + 1].prsOpened
              \/ /\ stats[k].prsOpened = stats[k + 1].prsOpened
                 /\ precedes(stats[k].person, stats[k + 1].person)
                 /\ ~precedes(stats[k + 1].person, stats[k].person)

\* the author of the second PR of the list comes first, having as many PRs
\* as the author of the first one and the preceding name, and a reviewer
\* without PRs comes last
C13_Witness ==
    /\ Done
    /\ Len(stats) = 3
    /\ stats[1].person = prs[2].author
    /\ stats[2].person = prs[1].author
    /\ stats[1].prsOpened = 1
    /\ stats[2].prsOpened = 1
    /\ stats[3].prsOpened = 0
    /\ precedes(stats[1].person, stats[2].person)

\* the k-th smallest element of the list, counted with repetitions
kthSmallest(list, k) ==
    CHOOSE v \in {list[i] : i \in 1..Len(list)} :
        /\ Cardinality({i \in 1..Len(list) : list[i] < v}) < k
        /\ Cardinality({i \in 1..Len(list) : list[i] <= v}) >= k

\* C14: calculateTimeMetrics returns null exactly for the empty list; for a
\* non-empty list min and max are the smallest and the largest element, and
\* median is the middle element of the ascending order for an odd length
\* and the mean of the two middle elements for an even length: 25 for
\* [10, 20, 30, 40] and 20 for [10, 20, 30].
C14_MinMaxMedian ==
    pc = "metrics" =>
        /\ (metrics = Null) <=> (durations = << >>)
        /\ durations # << >> =>
              LET m == metrics[1]
                  n == Len(durations)
                  values == {durations[i] : i \in 1..n}
              IN  /\ m.min = setMin(values)
                  /\ m.max = setMax(values)
                  /\ m.median.den > 0
                  /\ IF n % 2 = 1
                     THEN m.median.num = kthSmallest(durations, (n + 1) \div 2) * m.median.den
                     ELSE 2 * m.median.num
                            = (kthSmallest(durations, n \div 2)
                                 + kthSmallest(durations, n \div 2 + 1)) * m.median.den
        /\ durations = <<10, 20, 30, 40>> => metrics[1].median.num = 25 * metrics[1].median.den
        /\ durations = <<10, 20, 30>> => metrics[1].median.num = 20 * metrics[1].median.den

\* an unsorted list of even length: the median lies between the two middle
\* elements of the ascending order
C14_Witness ==
    /\ pc = "metrics"
    /\ durations = <<30, 10, 40, 20>>
    /\ metrics # Null
    /\ metrics[1].min = 10
    /\ metrics[1].max = 40
    /\ metrics[1].median = [num |-> 50, den |-> 2]

\* the entry of person p in a list of PersonStats, and its row for PR n
entryOf(list, p) == list[CHOOSE k \in 1..Len(list) : list[k].person = p]
detailOf(entry, n) ==
    entry.prDetails[CHOOSE i \in 1..Len(entry.prDetails) : entry.prDetails[i].prNumber = n]

\* the input's requests with one more request, naming p on n at time t
withRequest(p, n, t) ==
    push(reviewRequests, n, [prNumber |-> n, reviewer |-> p, requestedAt |-> t])

\* C15: for a person who reviewed or commented on a PR on which no request
\* names that person, firstCommentTime and firstReviewTime of the row are
\* null and no timing collection of the person gets an element for that PR;
\* the tally and the reviewStatus are the ones of the same input with a
\* request for that person.
C15_NoRequestNoTiming ==
    Done =>
        \A p \in Humans, n \in inputPRs :
            (requestsFor(p, n) = {} /\ (reviewsBy(p, n) # {} \/ commentsBy(p, n) # {})) =>
                LET data == collectionsOf(p)
                    requested == {k \in inputPRs : requestsFor(p, k) # {}}
                IN  /\ hasStub(p, n)
                    /\ stubOf(p, n).firstCommentTime = Null
                    /\ stubOf(p, n).firstReviewTime = Null
                    /\ rowOf(p, n).firstCommentTime = Null
                    /\ rowOf(p, n).firstReviewTime = Null
                    /\ Len(data.timeToFirstComment) <= Cardinality(requested)
                    /\ Len(data.timeToFirstReview) <= Cardinality(requested)
                    /\ Len(data.timeToApproval) <= Cardinality(requested)
                    /\ \A t \in Times :
                          LET other == entryOf(calculateStats(prs, reviews, withRequest(p, n, t),
                                                              comments, clock), p)
                          IN  /\ other.reviewMetrics = statsOf(p).reviewMetrics
                              /\ other.totalReviewsGiven = statsOf(p).totalReviewsGiven
                              /\ detailOf(other, n).reviewStatus = rowOf(p, n).reviewStatus

\* a person approved a PR on which only somebody else was requested: no
\* timing, the approval tallied and shown
C15_Witness ==
    /\ Done
    /\ \E p \in Humans, q \in Humans, n \in inputPRs :
          /\ p # q
          /\ authorOf(n) # p
          /\ requestsFor(p, n) = {}
          /\ requestsFor(q, n) # {}
          /\ reviewsBy(p, n) # {}
          /\ lastState(p, n) = "APPROVED"
          /\ rowOf(p, n).firstReviewTime = Null
          /\ rowOf(p, n).firstCommentTime = Null
          /\ collectionsOf(p).timeToFirstReview = << >>
          /\ rowOf(p, n).reviewStatus = "APPROVED"
          /\ statsOf(p).reviewMetrics.approved = 1

\* C16: in every detail row firstCommentTime (and firstReviewTime) is null
\* only if no request was recorded for the person on the PR, no qualifying
\* response exists or the delta is negative; a non-negative delta, one of
\* exactly 0 included, is the value of the field, the one that was added to
\* the person's timing collection.
C16_ZeroDeltaKept ==
    Done =>
        \A p \in outPersons, n \in inputPRs :
            /\ rowOf(p, n).firstCommentTime = expectedCommentDelta(p, n)
            /\ rowOf(p, n).firstReviewTime = expectedReviewDelta(p, n)
            /\ rowOf(p, n).firstCommentTime # Null =>
                  countIn(collectionsOf(p).timeToFirstComment,
                          rowOf(p, n).firstCommentTime[1]) >= 1
            /\ rowOf(p, n).firstReviewTime # Null =>
                  countIn(collectionsOf(p).timeToFirstReview,
                          rowOf(p, n).firstReviewTime[1]) >= 1

\* C17: for every person of the output timeToFirstReview and timeToApproval
\* come from identical duration collections: both are null, or both hold
\* the same average, min, max and median.
C17_ReviewEqualsApproval ==
    Done =>
        \A k \in 1..Len(stats) :
            LET data == collectionsOf(stats[k].person)
                first == stats[k].timeToFirstReview
                approval == stats[k].timeToApproval
            IN  /\ data.timeToFirstReview = data.timeToApproval
                /\ (first = Null) <=> (approval = Null)
                /\ first # Null =>
                      /\ first[1].average = approval[1].average
                      /\ first[1].min = approval[1].min
                      /\ first[1].max = approval[1].max
                      /\ first[1].median = approval[1].median

\* a requested reviewer whose only formal review requests changes: the
\* delta of that review is in both metrics
C17_Witness ==
    /\ Done
    /\ \E p \in Humans, n \in inputPRs :
          /\ requestsFor(p, n) # {}
          /\ reviewStatesOf(p, n) = {"CHANGES_REQUESTED"}
          /\ statsOf(p).timeToFirstReview # Null
          /\ statsOf(p).timeToApproval # Null
          /\ statsOf(p).timeToApproval[1].min
                 = setMin(reviewTimes(p, n)) - matchedRequestTime(p, n)
          /\ statsOf(p).timeToApproval[1].min > 0

\* the identities that submitted a review on PR n
reviewersOf(n) == {mapGet(reviews, n)[i].reviewer : i \in 1..Len(mapGet(reviews, n))}

\* C18: reviewerCount of a detail row is the number of distinct non-bot
\* identities that submitted a review on that PR, the same in every
\* person's row for the PR.
C18_ReviewerCount ==
    Done =>
        \A n \in inputPRs :
            /\ \A p \in outPersons :
                  rowOf(p, n).reviewerCount
                      = Cardinality({x \in reviewersOf(n) : ~isBot[x]})
            /\ \A p \in outPersons, q \in outPersons :
                  rowOf(p, n).reviewerCount = rowOf(q, n).reviewerCount

\* a PR with two reviews, both by one person or one of them by a bot, counts
\* one reviewer, in the row of the reviewer and in the row of another person
C18_Witness ==
    /\ Done
    /\ \E n \in inputPRs, p \in outPersons, q \in outPersons :
          /\ p # q
          /\ Len(mapGet(reviews, n)) > 1
          /\ p \in reviewersOf(n)
          /\ q \notin reviewersOf(n)
          /\ rowOf(p, n).reviewerCount = 1
          /\ rowOf(q, n).reviewerCount = 1

\* the PR of the input list with number n
prOf(n) == prs[CHOOSE i \in 1..Len(prs) : prs[i].number = n]

\* the values Date.now() has during the call
clockValues == {readClock(clock, r) : r \in 0..MaxReads}

\* C19: timeOpen of a detail row is mergedAt - readyForReviewAt for a merged
\* PR, else closedAt - readyForReviewAt for a closed one, else the current
\* time - readyForReviewAt; within one call it depends on the PR only: every
\* person's row for the same PR carries the same timeOpen.
C19_TimeOpenPerPR ==
    Done =>
        \A n \in inputPRs :
            /\ \A p \in outPersons :
                  LET pr == prOf(n)
                      timeOpen == rowOf(p, n).timeOpen
                  IN  IF pr.mergedAt # Null
                      THEN timeOpen = pr.mergedAt[1] - pr.readyForReviewAt
                      ELSE IF pr.closedAt # Null
                      THEN timeOpen = pr.closedAt[1] - pr.readyForReviewAt
                      ELSE timeOpen + pr.readyForReviewAt \in clockValues
            /\ \A p \in outPersons, q \in outPersons :
                  rowOf(p, n).timeOpen = rowOf(q, n).timeOpen

\* C20: uniquePRsReviewed of a person is the number of distinct PRs, not
\* authored by the person, on which the person submitted at least one
\* review: several reviews on a PR count once, own PRs and PRs with informal
\* comments only never count.
C20_UniquePRsReviewed ==
    Done =>
        \A p \in outPersons :
            statsOf(p).uniquePRsReviewed
                = Cardinality({n \in inputPRs : authorOf(n) # p /\ reviewsBy(p, n) # {}})

\* a person who reviewed the own PR and left a comment on somebody else's
\* PR has reviewed no PR
C20_Witness ==
    /\ Done
    /\ \E p \in outPersons, n \in inputPRs, k \in inputPRs :
          /\ authorOf(n) = p
          /\ reviewsBy(p, n) # {}
          /\ authorOf(k) # p
          /\ commentsBy(p, k) # {}
          /\ statsOf(p).uniquePRsReviewed = 0
          /\ statsOf(p).totalReviewsGiven = 1

\* the number of reviews p submitted, over all PRs of the input
reviewsSubmitted(p) ==
    sum([i \in 1..Len(prs) |-> Cardinality(reviewsBy(p, prs[i].number))])

\* C21: totalReviewsGiven of a person is the total number of reviews that
\* person submitted: several reviews by the same person on the same PR each
\* count, so that totalReviewsGiven can exceed the number of PRs the person
\* reviewed.
C21_EveryReviewCounts ==
    Done =>
        \A p \in outPersons :
            statsOf(p).totalReviewsGiven = reviewsSubmitted(p)

\* every key of the review Map is the number of a PR of the list
reviewsKeyedByList == \A i \in 1..Len(reviews.keys) : reviews.keys[i] \in inputPRs

\* uniquePRsReviewed <= eligiblePRsForReview and 0 <= rate <= 100
rateInRange(entry) ==
    /\ entry.uniquePRsReviewed <= entry.eligiblePRsForReview
    /\ entry.reviewParticipationRate.den > 0
    /\ entry.reviewParticipationRate.num >= 0
    /\ entry.reviewParticipationRate.num <= 100 * entry.reviewParticipationRate.den

twoPRScenario ==
    /\ authorOf(1) = "alice"
    /\ authorOf(2) = "bob"
    /\ \E T0 \in ScenarioStarts :
          /\ mapGet(reviewRequests, 1)
                 = <<[prNumber |-> 1, reviewer |-> "bob", requestedAt |-> T0]>>
          /\ mapGet(reviews, 1)
                 = <<[prNumber |-> 1, reviewer |-> "bob", state |-> "APPROVED",
                      submittedAt |-> T0 + TwoHours]>>
    /\ mapGet(reviewRequests, 2) = << >>
    /\ mapGet(reviews, 2) = << >>
    /\ mapGet(comments, 1) = << >>
    /\ Len(mapGet(comments, 2)) = 1
    /\ mapGet(comments, 2)[1].commenter = "alice"

\* C23: in the two-PR scenario alice.prsOpened = 1 and bob.prsOpened = 1;
\* bob.timeToFirstReview has average = min = max = median = 2 h in ms; all
\* three time metrics of alice are null; alice's row for PR 2 is
\* COMMENTED_ONLY; bob's row for PR 1 is APPROVED; alice and bob each have
\* exactly 2 detail rows.
C23_TwoPRScenario ==
    (Done /\ twoPRScenario) =>
        /\ outPersons = {"alice", "bob"}
        /\ statsOf("alice").prsOpened = 1
        /\ statsOf("bob").prsOpened = 1
        /\ statsOf("bob").timeToFirstReview # Null
        /\ LET m == statsOf("bob").timeToFirstReview[1]
           IN  /\ m.average.den > 0
               /\ m.average.num = TwoHours * m.average.den
               /\ m.min = TwoHours
               /\ m.max = TwoHours
               /\ m.median.den > 0
               /\ m.median.num = TwoHours * m.median.den
        /\ statsOf("alice").timeToFirstComment = Null
        /\ statsOf("alice").timeToFirstReview = Null
        /\ statsOf("alice").timeToApproval = Null
        /\ rowOf("alice", 2).reviewStatus = "COMMENTED_ONLY"
        /\ rowOf("bob", 1).reviewStatus = "APPROVED"
        /\ Len(statsOf("alice").prDetails) = 2
        /\ Len(statsOf("bob").prDetails) = 2

\* the scenario with T0 = 1000: bob's approval at 7201000 is measured as
\* 7200000 ms
C23_Witness ==
    /\ Done
    /\ twoPRScenario
    /\ mapGet(reviewRequests, 1)[1].requestedAt = 1000
    /\ mapGet(reviews, 1)[1].submittedAt = 7201000
    /\ statsOf("bob").timeToFirstReview # Null
    /\ statsOf("bob").timeToFirstReview[1].min = 7200000
    /\ statsOf("alice").timeToFirstComment = Null
    /\ rowOf("alice", 2).reviewStatus = "COMMENTED_ONLY"

\* the lists holding the elements of list in another order
permutationsOf(list) ==
    {[i \in 1..Len(list) |-> list[f[i]]] : f \in Permutations(1..Len(list))}

hasStubIn(pm, p, n) == mapHas(pm, p) /\ mapHas(mapGet(pm, p).prDetailsMap, n)
stubIn(pm, p, n) == mapGet(mapGet(pm, p).prDetailsMap, n)
firstCommentsIn(pm, p) == IF mapHas(pm, p) THEN mapGet(pm, p).timeToFirstComment ELSE << >>

\* C25: the stray-comment stage records a COMMENTED_ONLY stub and a
\* time-to-first-comment value for a (commenter, PR) pair only when the
\* review stage recorded no stub for that pair: each (person, PR) pair
\* contributes at most one duration to the person's timeToFirstComment
\* collection, a review-stage status is never replaced by COMMENTED_ONLY, and
\* every COMMENTED_ONLY row has firstReviewTime null.
C25_StrayCommentsOnlyWithoutStub ==
    Done =>
        LET afterReviews == reviewStage(prs, reviews, reviewRequests, comments)
        IN  \A p \in Humans :
                mapHas(personMap, p) =>
                    LET collection == collectionsOf(p).timeToFirstComment
                        before == firstCommentsIn(afterReviews, p)
                        added == {n \in inputPRs :
                                     /\ ~hasStubIn(afterReviews, p, n)
                                     /\ expectedCommentDelta(p, n) # Null}
                    IN  /\ \A n \in inputPRs :
                              /\ hasStubIn(afterReviews, p, n) <=> reviewsBy(p, n) # {}
                              /\ hasStubIn(afterReviews, p, n) =>
                                    /\ hasStub(p, n)
                                    /\ stubOf(p, n) = stubIn(afterReviews, p, n)
                                    /\ stubOf(p, n).reviewStatus = lastState(p, n)
                              /\ (hasStub(p, n) /\ ~hasStubIn(afterReviews, p, n)) =>
                                    /\ commentsBy(p, n) # {}
                                    /\ stubOf(p, n).reviewStatus = "COMMENTED_ONLY"
                                    /\ stubOf(p, n).firstReviewTime = Null
                              /\ rowOf(p, n).reviewStatus = "COMMENTED_ONLY" =>
                                    /\ reviewsBy(p, n) = {}
                                    /\ rowOf(p, n).firstReviewTime = Null
                        /\ Len(collection) = Len(before) + Cardinality(added)
                        /\ SubSeq(collection, 1, Len(before)) = before
                        /\ holdsDeltas(collection, p, expectedCommentDelta)
                        /\ Len(collection)
                               <= Cardinality({n \in inputPRs : hasStub(p, n)})

\* a requested person reviewed a PR and commented on it: the comment stage
\* leaves the review's status and adds no second duration
C25_Witness ==
    /\ Done
    /\ \E p \in Humans, n \in inputPRs :
          /\ authorOf(n) # p
          /\ requestsFor(p, n) # {}
          /\ reviewsBy(p, n) # {}
          /\ commentsBy(p, n) # {}
          /\ expectedCommentDelta(p, n) # Null
          /\ stubOf(p, n).reviewStatus = lastState(p, n)
          /\ rowOf(p, n).reviewStatus = lastState(p, n)
          /\ Len(collectionsOf(p).timeToFirstComment) = 1

\* the fetches of PR n that have settled
settledFor(n) == {f \in Fetches : <<n, f>> \in DOMAIN run.resolved /\ <<n, f>> \notin run.pending}

\* C26: in main, calculateStats is invoked only after, for every PR of the
\* bot- and draft-filtered list, the four fetches have all completed, the
\* readyForReviewAt override has been applied and the three Maps hold an
\* entry for that PR; no aggregation or export step runs while a fetch is
\* outstanding; when the filtered list is empty neither the aggregation nor
\* any export runs.
C26_AggregationAfterFetches ==
    LET filtered == filterPRs(run.allPrs)
    IN  /\ (pc \in {"calculateStats", "export"} \/ run.steps # << >>) =>
              /\ run.pending = {}
              /\ Len(prs) = Len(filtered)
              /\ Len(prs) > 0
              /\ \A i \in 1..Len(prs) :
                    LET n == prs[i].number
                        date == run.resolved[<<n, "fetchReadyForReviewDate">>]
                    IN  /\ n = filtered[i].number
                        /\ ~isBot[prs[i].author]
                        /\ ~prs[i].isDraft
                        /\ settledFor(n) = Fetches
                        /\ prs[i].readyForReviewAt =
                              IF date # Null THEN date[1] ELSE filtered[i].readyForReviewAt
                        /\ mapHas(reviews, n)
                        /\ mapGet(reviews, n) = run.resolved[<<n, "fetchReviews">>]
                        /\ mapHas(reviewRequests, n)
                        /\ mapGet(reviewRequests, n) = run.resolved[<<n, "fetchReviewRequests">>]
                        /\ mapHas(comments, n)
                        /\ mapGet(comments, n) = run.resolved[<<n, "fetchPRComments">>]
        /\ run.pending # {} => pc \in {"awaitAll", "exited"}
        /\ filtered = << >> => (run.steps = << >> /\ stats = << >>)
        /\ pc = "exited" => run.steps = << >>

\* main has returned after the aggregation and every export, for a fetched
\* list of which a bot's or a draft PR was dropped, and with a
\* ready-for-review date that replaced the creation date
C26_Witness ==
    /\ pc = "returned"
    /\ run.steps = <<"calculateStats">> \o ExportSteps
    /\ Len(prs) < Len(run.allPrs)
    /\ \E i \in 1..Len(prs) :
          /\ run.resolved[<<prs[i].number, "fetchReadyForReviewDate">>] = Some(1)
          /\ prs[i].readyForReviewAt = 1
    /\ stats # << >>

C28_CommentBeforeReview ==
    Done =>
        \A p \in outPersons, n \in inputPRs :
            LET row == rowOf(p, n)
            IN  /\ (row.firstCommentTime # Null /\ row.firstReviewTime # Null) =>
                      row.firstCommentTime[1] <= row.firstReviewTime[1]
                /\ row.reviewStatus = "NOT_REVIEWED" =>
                      /\ row.firstCommentTime = Null
                      /\ row.firstReviewTime = Null

\* a requested reviewer whose approval is the first response and whose
\* comment comes later: both times are the approval's; the same person's
\* row for the other PR is NOT_REVIEWED, without times
C28_Witness ==
    /\ Done
    /\ \E p \in outPersons, n \in inputPRs, k \in inputPRs :
          /\ formalTimes(p, n) # {}
          /\ commentTimes(p, n) # {}
          /\ setMin(formalTimes(p, n)) < setMin(commentTimes(p, n))
          /\ rowOf(p, n).firstCommentTime # Null
          /\ rowOf(p, n).firstReviewTime # Null
          /\ rowOf(p, n).firstCommentTime = rowOf(p, n).firstReviewTime
          /\ rowOf(p, k).reviewStatus = "NOT_REVIEWED"
          /\ rowOf(p, k).firstCommentTime = Null

\* no PR of the list has a bot as its author
noBotAuthors == \A i \in 1..Len(prs) : ~isBot[prs[i].author]

\* C29: for a PR list with unique numbers and no bot authors, every person
\* of the output has prsOpened + eligiblePRsForReview = the number of input
\* PRs, as many OWN_PR detail rows as prsOpened, and the sum of prsOpened
\* over all persons of the output is the number of input PRs.
C29_PRsOpenedAddUp ==
    (Done /\ noBotAuthors) =>
        /\ \A p \in outPersons :
              /\ statsOf(p).prsOpened + statsOf(p).eligiblePRsForReview = Len(prs)
              /\ Cardinality({i \in 1..Len(statsOf(p).prDetails) :
                                 statsOf(p).prDetails[i].reviewStatus = "OWN_PR"})
                     = statsOf(p).prsOpened
              /\ statsOf(p).prsOpened = authored(p)
        /\ sum([k \in 1..Len(stats) |-> stats[k].prsOpened]) = Len(prs)

\* one person opened both PRs and reviewed one of them, another person
\* reviewed without having opened one
C29_Witness ==
    /\ Done
    /\ noBotAuthors
    /\ \E p \in outPersons, q \in outPersons :
          /\ statsOf(p).prsOpened = 2
          /\ statsOf(p).eligiblePRsForReview = 0
          /\ \E n \in inputPRs : reviewsBy(p, n) # {}
          /\ statsOf(q).prsOpened = 0
          /\ statsOf(q).eligiblePRsForReview = 2
          /\ \A n \in inputPRs : rowOf(p, n).reviewStatus = "OWN_PR"

\* the person's own PRs on which the person submitted a review
ownPRsReviewed(p) == {n \in inputPRs : authorOf(n) = p /\ reviewsBy(p, n) # {}}

====
